---- MODULE Spec2Model ----
(***************************************************************************)
(* sjtu::list<T> (src/list.hpp): a circular doubly linked list anchored by *)
(* one sentinel node per list, with iterators that carry (owner, node).    *)
(*                                                                         *)
(* The heap is modelled explicitly.  A node is an identifier; prev, next   *)
(* and val are the node's three fields; alive is the set of nodes that     *)
(* have been allocated and not yet deleted.  T is instantiated with the    *)
(* integers 1..MaxVal, ordered by < and compared by =.                     *)
(*                                                                         *)
(* Callers obey the one rule the container cannot check: an iterator whose *)
(* target node has been deleted is never used again (it may be             *)
(* overwritten).  Every other call sequence of the public interface is     *)
(* explored, with both outcomes of every check.  A list may be destroyed   *)
(* and constructed again in the same storage; no member of a destroyed     *)
(* list is called, and an iterator operation that has to read its          *)
(* destroyed owner has undefined behaviour.                                *)
(*                                                                         *)
(* The specifications share the same actions.  Spec runs sequences of      *)
(* calls from the construction of the first list, up to the first state in *)
(* which a list is no longer well formed; SpecCopy is Spec with every list *)
(* after the first made by the copy constructor.  SpecOps, SpecSort,       *)
(* SpecMerge,                                                              *)
(* SpecUnique and SpecFifo make one call on every well-formed state within *)
(* their bounds.  SpecSortSteps follows one call of sort() statement by    *)
(* statement.                                                              *)
(***************************************************************************)
EXTENDS Integers, Sequences, FiniteSets, TLC

\* ---------------------------------------------------------------- bounds
\* element nodes that may be alive at once in the container state machine Spec
MaxNodes == 2
\* most element nodes of the two lists together in the states SpecOps starts from
MaxOpNodes == 3
\* element values are 1..MaxVal
MaxVal == 2
\* longest list handed to sort() in SpecSort
MaxSortLen == 4
\* element values of the lists handed to sort() and merge() are 1..MaxAlgVal
MaxAlgVal == 3
\* most nodes in receiver and argument together handed to merge() in SpecMerge
MaxMergeNodes == 4
\* longest list handed to unique() in SpecUnique
MaxUniqueLen == 6
\* most values pushed in a row before they are popped again
MaxFifoLen == 3
\* most elements of the two lists together in the states SpecFifo starts from
MaxFifoStart == 2

\* ---------------------------------------------------------------- universe
Null == 0            \* nullptr
Dead == -1           \* the pointer held by an iterator whose node was deleted
Lists == {1, 2}      \* the list objects of the program
Kinds == {"iterator", "const_iterator"}   \* the two iterator classes
Values == 1..MaxVal

Max2(a, b) == IF a >= b THEN a ELSE b
PoolSize == Max2(Max2(Max2(2 * MaxNodes, 2 * MaxOpNodes), Max2(MaxSortLen, MaxMergeNodes)),
                 Max2(MaxUniqueLen, MaxFifoStart + MaxFifoLen))
UB(h) == [h EXCEPT !.ub = TRUE]
Elems == 3..(2 + PoolSize)      \* addresses of element nodes
NodeIds == Lists \cup Elems     \* all node addresses

\* the sentinel allocated by the constructor of list l
head(l) == l

VARIABLES
    next,         \* node::next
    prev,         \* node::prev
    val,          \* node::val, 0 for a node without value (nullptr)
    alive,        \* allocated, not yet deleted nodes
    sz,           \* list::sz; an integer s < 0 stands for the size_t 2^64 + s
    constructed,  \* list objects whose constructor has run
    it,           \* the caller's iterator variable: its class, owner and ptr
    last,         \* the last call: operation, receiver, outcome, returned value
    intact,       \* whether every constructed list is well formed (a function of the
                  \* heap, recorded once per call)
    run,          \* "program": calls follow each other from construction on;
                  \* "single": one call is made on a given state
    srt           \* the locals and position of a sort() call that is followed statement
                  \* by statement (SpecSortSteps); idle in the other specifications

vars == <<next, prev, val, alive, sz, constructed, it, last, intact, run, srt>>

\* no sort() call is being followed
Idle == [pc |-> "idle"]

\* The heap and iterator part of the state, as one value the operations map.
\* ub is raised by a step that reads through a null or deleted pointer.
Heap == [next |-> next, prev |-> prev, val |-> val, alive |-> alive,
         sz |-> sz, it |-> it, ub |-> FALSE]

\* iterator() = default, const_iterator() = default
NoIter(k) == [kind |-> k, owner |-> Null, ptr |-> Null]
NoRet == [kind |-> "none"]
RetIter(o, p) == [kind |-> "iter", owner |-> o, ptr |-> p]
RetCIter(o, p) == [kind |-> "citer", owner |-> o, ptr |-> p]
RetVal(v) == [kind |-> "val", v |-> v]
RetPtr(v) == [kind |-> "ptr", v |-> v]       \* a T*: the value it points at, 0 for nullptr

\* Outcome of a call: the heap after it, how it ended, what it returned.  "undefined":
\* the call executed undefined behaviour (a read through a null or deleted pointer, an
\* uninitialised or out-of-range buffer slot); nothing is known about what follows.
Undefined(h) == [h |-> h, status |-> "undefined", ret |-> [kind |-> "none"]]
Ok(h, r) == IF h.ub THEN Undefined(h) ELSE [h |-> h, status |-> "ok", ret |-> r]
Throw(h, e) == [h |-> h, status |-> e, ret |-> NoRet]

\* ---------------------------------------------------------------- node
\* new node(v): the lowest free address, fields as the constructor sets them
NewAddr(h) == CHOOSE n \in Elems \ h.alive : \A m \in Elems \ h.alive : n <= m

node(h, n, v) ==
    [h EXCEPT !.alive = @ \cup {n}, !.prev[n] = Null, !.next[n] = Null, !.val[n] = v]

\* delete n: the value is freed with the node; iterators at n now dangle
DeleteNode(h, n) ==
    [h EXCEPT !.alive = @ \ {n}, !.prev[n] = Null, !.next[n] = Null, !.val[n] = 0,
              !.it.ptr = IF @ = n THEN Dead ELSE @]

\* ---------------------------------------------------------------- link operations
\* insert(node*, node*) without pos->prev->next = cur
insert_node_NoForwardLink(h, l, pos, cur) ==
    LET h1 == [h  EXCEPT !.prev[cur] = h.prev[pos]]
        h2 == [h1 EXCEPT !.next[cur] = pos]
        h4 == [h2 EXCEPT !.prev[pos] = cur]
    IN  [h4 EXCEPT !.sz[l] = @ + 1]

\* node *insert(node *pos, node *cur) of list l
insert_node(h, l, pos, cur) ==
    LET p  == h.prev[pos]
        h1 == [h  EXCEPT !.prev[cur] = p]
        h2 == [h1 EXCEPT !.next[cur] = pos]
        h3 == [h2 EXCEPT !.next[h2.prev[pos]] = cur]
        h4 == [h3 EXCEPT !.prev[pos] = cur]
    IN  [h4 EXCEPT !.sz[l] = @ + 1]

\* erase(node*) without pos->next->prev = pos->prev
erase_node_NoBackLink(h, l, pos) ==
    LET h1 == [h  EXCEPT !.next[h.prev[pos]] = h.next[pos]]
        h3 == [h1 EXCEPT !.prev[pos] = Null, !.next[pos] = Null]
    IN  [h3 EXCEPT !.sz[l] = @ - 1]

\* node *erase(node *pos) of list l
erase_node(h, l, pos) ==
    LET h1 == [h  EXCEPT !.next[h.prev[pos]] = h.next[pos]]
        h2 == [h1 EXCEPT !.prev[h1.next[pos]] = h1.prev[pos]]
        h3 == [h2 EXCEPT !.prev[pos] = Null, !.next[pos] = Null]
    IN  [h3 EXCEPT !.sz[l] = @ - 1]

\* ---------------------------------------------------------------- traversal
\* the nodes met following next from n until stop, at most fuel of them
RECURSIVE Walk(_, _, _, _)
Walk(h, n, stop, fuel) ==
    IF n = stop \/ n = Null \/ fuel = 0 THEN <<>>
    ELSE <<n>> \o Walk(h, h.next[n], stop, fuel - 1)

\* the traversal order of list l: from head->next to the sentinel
Chain(h, l) == Walk(h, h.next[head(l)], head(l), Cardinality(NodeIds))

Range(s) == {s[k] : k \in 1..Len(s)}
ValuesOf(h, s) == [k \in 1..Len(s) |-> h.val[s[k]]]

IsAlive(h, n) == n \in h.alive

\* ---------------------------------------------------------------- list: insert, erase
\* insert(iterator, value) that checks only for a null node, not the owner
list_insert_NoOwnerCheck(h, l, pos, value) ==
    IF pos.ptr = Null THEN Throw(h, "InvalidIterator")
    ELSE IF ~IsAlive(h, pos.ptr) \/ ~IsAlive(h, h.prev[pos.ptr]) THEN Undefined(h)
    ELSE LET cur == NewAddr(h)
         IN  Ok(insert_node(node(h, cur, value), l, pos.ptr, cur), RetIter(l, cur))

\* iterator insert(iterator pos, const T &value)
list_insert(h, l, pos, value) ==
    IF pos.owner # l \/ pos.ptr = Null THEN Throw(h, "InvalidIterator")
    ELSE IF ~IsAlive(h, pos.ptr) \/ ~IsAlive(h, h.prev[pos.ptr]) THEN Undefined(h)
    ELSE LET cur == NewAddr(h)
         IN  Ok(insert_node(node(h, cur, value), l, pos.ptr, cur), RetIter(l, cur))

\* erase(iterator) that checks the iterator before the size
list_erase_IteratorFirst(h, l, pos) ==
    IF pos.owner # l \/ pos.ptr = Null \/ pos.ptr = head(l)
    THEN Throw(h, "InvalidIterator")
    ELSE IF h.sz[l] = 0 THEN Throw(h, "ContainerIsEmpty")
    ELSE IF ~IsAlive(h, pos.ptr) \/ ~IsAlive(h, h.prev[pos.ptr])
            \/ ~IsAlive(h, h.next[pos.ptr]) THEN Undefined(h)
    ELSE LET nxt == h.next[pos.ptr]
             rm  == pos.ptr
         IN  Ok(DeleteNode(erase_node(h, l, rm), rm), RetIter(l, nxt))

\* iterator erase(iterator pos)
list_erase(h, l, pos) ==
    IF h.sz[l] = 0 THEN Throw(h, "ContainerIsEmpty")
    ELSE IF pos.owner # l \/ pos.ptr = Null \/ pos.ptr = head(l)
         THEN Throw(h, "InvalidIterator")
    ELSE IF ~IsAlive(h, pos.ptr) \/ ~IsAlive(h, h.prev[pos.ptr])
            \/ ~IsAlive(h, h.next[pos.ptr]) THEN Undefined(h)
    ELSE LET nxt == h.next[pos.ptr]
             rm  == pos.ptr
         IN  Ok(DeleteNode(erase_node(h, l, rm), rm), RetIter(l, nxt))

\* the call's effect without the value it returns (the wrappers discard it)
Discard(r) == [r EXCEPT !.ret = NoRet]

\* push_back that inserts before begin() instead of before end()
push_back_AtFront(h, l, value) ==
    IF ~IsAlive(h, head(l)) THEN Undefined(h)
    ELSE Discard(list_insert(h, l, [owner |-> l, ptr |-> h.next[head(l)]], value))

\* void push_back(const T &value)
push_back(h, l, value) ==
    Discard(list_insert(h, l, [owner |-> l, ptr |-> head(l)], value))

\* void push_front(const T &value)
push_front(h, l, value) ==
    IF ~IsAlive(h, head(l)) THEN Undefined(h)
    ELSE Discard(list_insert(h, l, [owner |-> l, ptr |-> h.next[head(l)]], value))

\* void pop_back()
pop_back(h, l) ==
    IF h.sz[l] = 0 THEN Throw(h, "ContainerIsEmpty")
    ELSE IF ~IsAlive(h, head(l)) THEN Undefined(h)
    ELSE Discard(list_erase(h, l, [owner |-> l, ptr |-> h.prev[head(l)]]))

\* void pop_front()
pop_front(h, l) ==
    IF h.sz[l] = 0 THEN Throw(h, "ContainerIsEmpty")
    ELSE IF ~IsAlive(h, head(l)) THEN Undefined(h)
    ELSE Discard(list_erase(h, l, [owner |-> l, ptr |-> h.next[head(l)]]))

\* const T & front() const
front(h, l) ==
    IF h.sz[l] = 0 THEN Throw(h, "ContainerIsEmpty")
    ELSE IF ~IsAlive(h, head(l)) \/ h.val[h.next[head(l)]] = 0 THEN Undefined(h)
    ELSE Ok(h, RetVal(h.val[h.next[head(l)]]))

\* const T & back() const
back(h, l) ==
    IF h.sz[l] = 0 THEN Throw(h, "ContainerIsEmpty")
    ELSE IF ~IsAlive(h, head(l)) \/ h.val[h.prev[head(l)]] = 0 THEN Undefined(h)
    ELSE Ok(h, RetVal(h.val[h.prev[head(l)]]))

\* iterator begin()
begin(h, l) ==
    IF ~IsAlive(h, head(l)) THEN Undefined(h) ELSE Ok(h, RetIter(l, h.next[head(l)]))

\* const_iterator cbegin() const
cbegin(h, l) ==
    IF ~IsAlive(h, head(l)) THEN Undefined(h) ELSE Ok(h, RetCIter(l, h.next[head(l)]))

\* iterator end()
end(h, l) == Ok(h, RetIter(l, head(l)))

\* const_iterator cend() const
cend(h, l) == Ok(h, RetCIter(l, head(l)))

\* the loop of clear(): delete every node from cur up to the sentinel
RECURSIVE ClearLoop(_, _, _)
ClearLoop(h, cur, hd) ==
    IF cur # Null /\ cur # hd
    THEN IF ~IsAlive(h, cur) THEN UB(h)
         ELSE ClearLoop(DeleteNode(h, cur), h.next[cur], hd)
    ELSE h

\* void clear(), as a heap transformer
clear_h(h, l) ==
    IF ~IsAlive(h, head(l)) THEN UB(h)
    ELSE LET h1 == ClearLoop(h, h.next[head(l)], head(l))
         IN  [h1 EXCEPT !.next[head(l)] = head(l), !.prev[head(l)] = head(l),
                        !.sz[l] = 0]

clear(h, l) == Ok(clear_h(h, l), NoRet)

\* ---------------------------------------------------------------- sort
\* while (*(a[i]->val) < *(pivot->val)) ++i;
RECURSIVE ScanUp(_, _, _, _)
ScanUp(h, a, i, pivot) ==
    IF h.val[a[i]] < h.val[pivot] THEN ScanUp(h, a, i + 1, pivot) ELSE i

\* while (*(pivot->val) < *(a[j]->val)) --j;
RECURSIVE ScanDown(_, _, _, _)
ScanDown(h, a, j, pivot) ==
    IF h.val[pivot] < h.val[a[j]] THEN ScanDown(h, a, j - 1, pivot) ELSE j

\* node *t = a[i]; a[i] = a[j]; a[j] = t;
Swap(a, i, j) == [a EXCEPT ![i] = a[j], ![j] = a[i]]

\* while (i <= j) { scan up; scan down; if (i <= j) { swap; ++i; --j; } }
RECURSIVE PartitionLoop(_, _, _, _, _)
PartitionLoop(h, a, i, j, pivot) ==
    IF i <= j
    THEN LET i2 == ScanUp(h, a, i, pivot)
             j2 == ScanDown(h, a, j, pivot)
         IN  IF i2 <= j2 THEN PartitionLoop(h, Swap(a, i2, j2), i2 + 1, j2 - 1, pivot)
             ELSE PartitionLoop(h, a, i2, j2, pivot)
    ELSE [a |-> a, i |-> i, j |-> j]

\* a turn that never pushes the right subrange (i, r)
SortTurn_DropsRight(h, a, stack) ==
    LET l == stack[Len(stack)].l
        r == stack[Len(stack)].r
        popped == SubSeq(stack, 1, Len(stack) - 1)
        pivot == a[(l + r) \div 2]
        p  == PartitionLoop(h, a, l, r, pivot)
        s1 == IF l < p.j THEN Append(popped, [l |-> l, r |-> p.j]) ELSE popped
    IN  [a |-> p.a, stack |-> s1]

\* One turn of while (top >= 0): pop (l, r), partition, push the open subranges.
\* The arrays L, R and top are the sequence stack: top = Len(stack) - 1.
SortTurn(h, a, stack) ==
    LET l == stack[Len(stack)].l
        r == stack[Len(stack)].r
        popped == SubSeq(stack, 1, Len(stack) - 1)
        pivot == a[(l + r) \div 2]
        p  == PartitionLoop(h, a, l, r, pivot)
        s1 == IF l < p.j THEN Append(popped, [l |-> l, r |-> p.j]) ELSE popped
        s2 == IF p.i < r THEN Append(s1, [l |-> p.i, r |-> r]) ELSE s1
    IN  [a |-> p.a, stack |-> s2]

RECURSIVE SortLoop(_, _, _)
SortLoop(h, a, stack) ==
    IF Len(stack) > 0
    THEN LET t == SortTurn(h, a, stack) IN SortLoop(h, t.a, t.stack)
    ELSE a

\* relink the chain of list l in the order of the buffer a[0..n-1]
RECURSIVE RelinkLoop(_, _, _, _)
RelinkLoop(h, a, k, n) ==
    IF k < n
    THEN RelinkLoop([h EXCEPT !.next[a[k - 1]] = a[k], !.prev[a[k]] = a[k - 1]],
                    a, k + 1, n)
    ELSE h

\* the sorted buffer written back as values into the nodes in their old order
Relink_CopiesValues(h, l, a, n) ==
    LET c == Chain(h, l)
    IN  [h EXCEPT !.val = [m \in NodeIds |->
                             IF \E k \in 1..Len(c) : c[k] = m
                             THEN h.val[a[(CHOOSE k \in 1..Len(c) : c[k] = m) - 1]]
                             ELSE h.val[m]]]

Relink(h, l, a, n) ==
    LET h1 == [h EXCEPT !.next[head(l)] = a[0], !.prev[a[0]] = head(l)]
        h2 == RelinkLoop(h1, a, 1, n)
    IN  [h2 EXCEPT !.next[a[n - 1]] = head(l), !.prev[head(l)] = a[n - 1]]

\* void sort()
sort(h, l) ==
    IF h.sz[l] \in {0, 1} THEN Ok(h, NoRet)
    ELSE IF h.sz[l] < 0 THEN Throw(h, "bad_alloc")
    ELSE IF ~IsAlive(h, head(l)) \/ Len(Chain(h, l)) # h.sz[l] THEN Undefined(h)
    ELSE LET n == h.sz[l]
             c == Chain(h, l)
             a == [k \in 0..(n - 1) |-> c[k + 1]]
             sorted == SortLoop(h, a, <<[l |-> 0, r |-> n - 1]>>)
         IN  Ok(Relink(h, l, sorted, n), NoRet)

\* ---------------------------------------------------------------- merge
\* x->prev = tail; tail->next = x;
Splice(h, tail, x) == [h EXCEPT !.prev[x] = tail, !.next[tail] = x]

\* the rest of the argument is not appended
MergeRestB_Skips(h, b, tail, ohd) == [h |-> h, tail |-> tail]

\* while (b != other.head) { splice b }
RECURSIVE MergeRestB(_, _, _, _)
MergeRestB(h, b, tail, ohd) ==
    IF b # ohd THEN MergeRestB(Splice(h, tail, b), h.next[b], b, ohd)
    ELSE [h |-> h, tail |-> tail]

\* while (a != head) { splice a }
RECURSIVE MergeRestA(_, _, _, _)
MergeRestA(h, a, tail, hd) ==
    IF a # hd THEN MergeRestA(Splice(h, tail, a), h.next[a], a, hd)
    ELSE [h |-> h, tail |-> tail]

\* the loop with the comparison turned round: b is taken unless *a < *b
RECURSIVE MergeLoop_TakesEqual(_, _, _, _, _, _)
MergeLoop_TakesEqual(h, a, b, tail, hd, ohd) ==
    IF a # Null /\ b # Null /\ a # hd /\ b # ohd
    THEN IF ~(h.val[a] < h.val[b])
         THEN MergeLoop_TakesEqual(Splice(h, tail, b), a, h.next[b], b, hd, ohd)
         ELSE MergeLoop_TakesEqual(Splice(h, tail, a), h.next[a], b, a, hd, ohd)
    ELSE [h |-> h, a |-> a, b |-> b, tail |-> tail]

\* while (a && b && a != head && b != other.head): take b only when *b < *a
RECURSIVE MergeLoop(_, _, _, _, _, _)
MergeLoop(h, a, b, tail, hd, ohd) ==
    IF a # Null /\ b # Null /\ a # hd /\ b # ohd
    THEN IF h.val[b] < h.val[a]
         THEN MergeLoop(Splice(h, tail, b), a, h.next[b], b, hd, ohd)
         ELSE MergeLoop(Splice(h, tail, a), h.next[a], b, a, hd, ohd)
    ELSE [h |-> h, a |-> a, b |-> b, tail |-> tail]

\* merge without the test this == &other
merge_NoSelfCheck(h, l, other) ==
    IF h.sz[other] = 0 THEN Ok(h, NoRet)
    ELSE IF ~IsAlive(h, head(l)) \/ ~IsAlive(h, head(other)) THEN Undefined(h)
    ELSE LET a0 == h.next[head(l)]
             b0 == h.next[head(other)]
             h0 == [h EXCEPT !.next[head(l)] = head(l), !.prev[head(l)] = head(l)]
             new_sz == h.sz[l] + h.sz[other]
             m1 == MergeLoop(h0, a0, b0, head(l), head(l), head(other))
             m2 == MergeRestA(m1.h, m1.a, m1.tail, head(l))
             m3 == MergeRestB(m2.h, m1.b, m2.tail, head(other))
             h4 == [m3.h EXCEPT !.next[m3.tail] = head(l)]
             h5 == [h4 EXCEPT !.prev[head(l)] = m3.tail]
             h6 == [h5 EXCEPT !.next[head(other)] = head(other),
                              !.prev[head(other)] = head(other)]
         IN  Ok([h6 EXCEPT !.sz[other] = 0, !.sz[l] = new_sz], NoRet)

\* void merge(list &other)
merge(h, l, other) ==
    IF l = other \/ h.sz[other] = 0 THEN Ok(h, NoRet)
    ELSE IF ~IsAlive(h, head(l)) \/ ~IsAlive(h, head(other)) THEN Undefined(h)
    ELSE LET a0 == h.next[head(l)]
             b0 == h.next[head(other)]
             h0 == [h EXCEPT !.next[head(l)] = head(l), !.prev[head(l)] = head(l)]
             new_sz == h.sz[l] + h.sz[other]
             m1 == MergeLoop(h0, a0, b0, head(l), head(l), head(other))
             m2 == MergeRestA(m1.h, m1.a, m1.tail, head(l))
             m3 == MergeRestB(m2.h, m1.b, m2.tail, head(other))
             h4 == [m3.h EXCEPT !.next[m3.tail] = head(l)]
             h5 == [h4 EXCEPT !.prev[head(l)] = m3.tail]
             h6 == [h5 EXCEPT !.next[head(other)] = head(other),
                              !.prev[head(other)] = head(other)]
         IN  Ok([h6 EXCEPT !.sz[other] = 0, !.sz[l] = new_sz], NoRet)

\* ---------------------------------------------------------------- reverse, unique
\* the loop with cur->prev left as it was
RECURSIVE ReverseLoop_KeepsPrev(_, _, _)
ReverseLoop_KeepsPrev(h, cur, hd) ==
    LET tmp == h.next[cur]
        h1  == [h EXCEPT !.next[cur] = h.prev[cur]]
    IN  IF tmp # hd THEN ReverseLoop_KeepsPrev(h1, tmp, hd) ELSE h1

\* do { swap cur's prev and next; cur = the old next } while (cur != head)
RECURSIVE ReverseLoop(_, _, _)
ReverseLoop(h, cur, hd) ==
    LET tmp == h.next[cur]
        h1  == [h EXCEPT !.next[cur] = h.prev[cur], !.prev[cur] = tmp]
    IN  IF tmp # hd THEN ReverseLoop(h1, tmp, hd) ELSE h1

\* void reverse()
reverse(h, l) ==
    IF h.sz[l] \in {0, 1} THEN Ok(h, NoRet)
    ELSE IF ~IsAlive(h, head(l)) THEN Undefined(h)
    ELSE Ok(ReverseLoop(h, head(l), head(l)), NoRet)

\* the loop stepping to the next node after every erase as well
RECURSIVE UniqueLoop_StepsAfterErase(_, _, _)
UniqueLoop_StepsAfterErase(h, l, cur) ==
    IF cur # head(l) /\ h.next[cur] # head(l)
    THEN IF h.val[cur] = h.val[h.next[cur]]
         THEN LET dup == h.next[cur]
                  h1  == DeleteNode(erase_node(h, l, dup), dup)
              IN  UniqueLoop_StepsAfterErase(h1, l, h1.next[cur])
         ELSE UniqueLoop_StepsAfterErase(h, l, h.next[cur])
    ELSE h

\* while (cur != head && cur->next != head) { erase and delete an equal successor, or step }
RECURSIVE UniqueLoop(_, _, _)
UniqueLoop(h, l, cur) ==
    IF cur # head(l) /\ h.next[cur] # head(l)
    THEN IF h.val[cur] = h.val[h.next[cur]]
         THEN LET dup == h.next[cur]
              IN  UniqueLoop(DeleteNode(erase_node(h, l, dup), dup), l, cur)
         ELSE UniqueLoop(h, l, h.next[cur])
    ELSE h

\* void unique()
unique(h, l) ==
    IF h.sz[l] \in {0, 1} THEN Ok(h, NoRet)
    ELSE IF ~IsAlive(h, head(l)) THEN Undefined(h)
    ELSE Ok(UniqueLoop(h, l, h.next[head(l)]), NoRet)

\* ---------------------------------------------------------------- construction, copy
\* for (auto it = other.cbegin(); it != other.cend(); ++it) push_back(*it);
RECURSIVE CopyLoop(_, _, _, _)
CopyLoop(h, l, cur, ohd) ==
    IF h.ub \/ cur = ohd THEN h
    ELSE IF ~IsAlive(h, cur) \/ h.val[cur] = 0 THEN UB(h)
    ELSE LET r == push_back(h, l, h.val[cur])
         IN  IF r.status = "ok" THEN CopyLoop(r.h, l, h.next[cur], ohd) ELSE UB(h)

CopyFrom(h, l, other) ==
    IF ~IsAlive(h, head(other)) THEN UB(h)
    ELSE CopyLoop(h, l, h.next[head(other)], head(other))

\* head = new node(); head->next = head->prev = head; sz = 0;
NewHead(h, l) ==
    [h EXCEPT !.alive = @ \cup {head(l)}, !.val[head(l)] = 0,
              !.next[head(l)] = head(l), !.prev[head(l)] = head(l), !.sz[l] = 0]

\* list()
list_default(h, l) == Ok(NewHead(h, l), NoRet)

\* list(const list &other)
list_copy(h, l, other) == Ok(CopyFrom(NewHead(h, l), l, other), NoRet)

\* list &operator=(const list &other)
assign(h, l, other) ==
    IF l = other THEN Ok(h, NoRet)
    ELSE Ok(CopyFrom(clear_h(h, l), l, other), NoRet)

\* virtual ~list(): clear(), then delete head
list_destroy(h, l) == Ok(DeleteNode(clear_h(h, l), head(l)), NoRet)

\* the list object l is past its destructor: ~list() is the only code that frees a
\* sentinel
Destroyed(h, l) == ~IsAlive(h, head(l))

\* ---------------------------------------------------------------- iterator
\* An operator that reads owner->head or owner->sz of a destroyed list reads an
\* object whose lifetime has ended: undefined behaviour.
SetPtr(h, p) == [h EXCEPT !.it.ptr = p]
AsIter(x) == RetIter(x.owner, x.ptr)
AsCIter(x) == RetCIter(x.owner, x.ptr)

\* iterator operator++(int)
iterator_postinc(h) ==
    LET x == h.it IN
    IF x.owner = Null \/ x.ptr = Null THEN Throw(h, "InvalidIterator")
    ELSE IF Destroyed(h, x.owner) THEN Undefined(h)
    ELSE IF x.ptr = head(x.owner) THEN Throw(h, "InvalidIterator")
    ELSE Ok(SetPtr(h, h.next[x.ptr]), AsIter(x))

\* iterator & operator++()
iterator_preinc(h) ==
    LET x == h.it IN
    IF x.owner = Null \/ x.ptr = Null THEN Throw(h, "InvalidIterator")
    ELSE IF Destroyed(h, x.owner) THEN Undefined(h)
    ELSE IF x.ptr = head(x.owner) THEN Throw(h, "InvalidIterator")
    ELSE Ok(SetPtr(h, h.next[x.ptr]), RetIter(x.owner, h.next[x.ptr]))

\* iterator operator--(int)
iterator_postdec(h) ==
    LET x == h.it IN
    IF x.owner = Null \/ x.ptr = Null THEN Throw(h, "InvalidIterator")
    ELSE IF Destroyed(h, x.owner) THEN Undefined(h)
    ELSE IF h.sz[x.owner] = 0 THEN Throw(h, "InvalidIterator")
    ELSE IF h.prev[x.ptr] = head(x.owner) THEN Throw(h, "InvalidIterator")
    ELSE Ok(SetPtr(h, h.prev[x.ptr]), AsIter(x))

\* operator--() that steps before the check for begin()
iterator_predec_MovesFirst(h) ==
    LET x == h.it IN
    IF x.owner = Null \/ x.ptr = Null THEN Throw(h, "InvalidIterator")
    ELSE IF Destroyed(h, x.owner) THEN Undefined(h)
    ELSE IF h.sz[x.owner] = 0 THEN Throw(h, "InvalidIterator")
    ELSE IF h.prev[x.ptr] = head(x.owner)
         THEN Throw(SetPtr(h, h.prev[x.ptr]), "InvalidIterator")
    ELSE Ok(SetPtr(h, h.prev[x.ptr]), RetIter(x.owner, h.prev[x.ptr]))

\* iterator & operator--()
iterator_predec(h) ==
    LET x == h.it IN
    IF x.owner = Null \/ x.ptr = Null THEN Throw(h, "InvalidIterator")
    ELSE IF Destroyed(h, x.owner) THEN Undefined(h)
    ELSE IF h.sz[x.owner] = 0 THEN Throw(h, "InvalidIterator")
    ELSE IF h.prev[x.ptr] = head(x.owner) THEN Throw(h, "InvalidIterator")
    ELSE Ok(SetPtr(h, h.prev[x.ptr]), RetIter(x.owner, h.prev[x.ptr]))

\* T & operator *() const
iterator_deref(h) ==
    LET x == h.it IN
    IF x.owner = Null \/ x.ptr = Null THEN Throw(h, "InvalidIterator")
    ELSE IF Destroyed(h, x.owner) THEN Undefined(h)
    ELSE IF x.ptr = head(x.owner) THEN Throw(h, "InvalidIterator")
    ELSE IF h.val[x.ptr] = 0 THEN Undefined(h)
    ELSE Ok(h, RetVal(h.val[x.ptr]))

\* T * operator ->() const
iterator_arrow(h) ==
    LET x == h.it IN
    IF x.owner = Null \/ x.ptr = Null THEN Throw(h, "InvalidIterator")
    ELSE IF Destroyed(h, x.owner) THEN Undefined(h)
    ELSE IF x.ptr = head(x.owner) THEN Throw(h, "InvalidIterator")
    ELSE Ok(h, RetPtr(h.val[x.ptr]))

\* ---------------------------------------------------------------- const_iterator
\* const_iterator(const iterator &it)
const_iterator_from(h) ==
    Ok([h EXCEPT !.it = [kind |-> "const_iterator", owner |-> h.it.owner, ptr |-> h.it.ptr]],
       NoRet)

\* const_iterator operator++(int)
const_iterator_postinc(h) ==
    LET x == h.it IN
    IF x.owner = Null \/ x.ptr = Null THEN Throw(h, "InvalidIterator")
    ELSE IF Destroyed(h, x.owner) THEN Undefined(h)
    ELSE IF x.ptr = head(x.owner) THEN Throw(h, "InvalidIterator")
    ELSE Ok(SetPtr(h, h.next[x.ptr]), AsCIter(x))

\* operator++() without the check for the sentinel
const_iterator_preinc_NoSentinelCheck(h) ==
    LET x == h.it IN
    IF x.owner = Null \/ x.ptr = Null THEN Throw(h, "InvalidIterator")
    ELSE Ok(SetPtr(h, h.next[x.ptr]), RetCIter(x.owner, h.next[x.ptr]))

\* const_iterator & operator++()
const_iterator_preinc(h) ==
    LET x == h.it IN
    IF x.owner = Null \/ x.ptr = Null THEN Throw(h, "InvalidIterator")
    ELSE IF Destroyed(h, x.owner) THEN Undefined(h)
    ELSE IF x.ptr = head(x.owner) THEN Throw(h, "InvalidIterator")
    ELSE Ok(SetPtr(h, h.next[x.ptr]), RetCIter(x.owner, h.next[x.ptr]))

\* const_iterator operator--(int)
const_iterator_postdec(h) ==
    LET x == h.it IN
    IF x.owner = Null \/ x.ptr = Null THEN Throw(h, "InvalidIterator")
    ELSE IF Destroyed(h, x.owner) THEN Undefined(h)
    ELSE IF h.sz[x.owner] = 0 THEN Throw(h, "InvalidIterator")
    ELSE IF h.prev[x.ptr] = head(x.owner) THEN Throw(h, "InvalidIterator")
    ELSE Ok(SetPtr(h, h.prev[x.ptr]), AsCIter(x))

\* const_iterator & operator--()
const_iterator_predec(h) ==
    LET x == h.it IN
    IF x.owner = Null \/ x.ptr = Null THEN Throw(h, "InvalidIterator")
    ELSE IF Destroyed(h, x.owner) THEN Undefined(h)
    ELSE IF h.sz[x.owner] = 0 THEN Throw(h, "InvalidIterator")
    ELSE IF h.prev[x.ptr] = head(x.owner) THEN Throw(h, "InvalidIterator")
    ELSE Ok(SetPtr(h, h.prev[x.ptr]), RetCIter(x.owner, h.prev[x.ptr]))

\* const T & operator *() const
const_iterator_deref(h) ==
    LET x == h.it IN
    IF x.owner = Null \/ x.ptr = Null THEN Throw(h, "InvalidIterator")
    ELSE IF Destroyed(h, x.owner) THEN Undefined(h)
    ELSE IF x.ptr = head(x.owner) THEN Throw(h, "InvalidIterator")
    ELSE IF h.val[x.ptr] = 0 THEN Undefined(h)
    ELSE Ok(h, RetVal(h.val[x.ptr]))

\* const T * operator ->() const
const_iterator_arrow(h) ==
    LET x == h.it IN
    IF x.owner = Null \/ x.ptr = Null THEN Throw(h, "InvalidIterator")
    ELSE IF Destroyed(h, x.owner) THEN Undefined(h)
    ELSE IF x.ptr = head(x.owner) THEN Throw(h, "InvalidIterator")
    ELSE Ok(h, RetPtr(h.val[x.ptr]))

\* ================================================================ the state machine
\* The data model of a list: the sentinel is alive, the chain is a circle of live
\* nodes through it whose prev links mirror the next links, and sz counts its elements.
WellFormed(h, l) ==
    LET c == Chain(h, l)
        ring == <<head(l)>> \o c
    IN  /\ head(l) \in h.alive
        /\ \A k \in 1..Len(c) : c[k] \in h.alive \cap Elems
        /\ \A k \in 1..Len(ring) :
              /\ h.next[ring[k]] = ring[(k % Len(ring)) + 1]
              /\ h.prev[ring[(k % Len(ring)) + 1]] = ring[k]
        /\ h.sz[l] = Len(c)

Intact(h, cs) == \A l \in cs : WellFormed(h, l)

\* Calls are followed while the program's behaviour is defined and up to the first
\* state in which a list is no longer well formed; that state is part of the model,
\* what the program does from it is not explored.
Running ==
    /\ last.status # "undefined" /\ intact
    /\ run = "single" => last.op = "input"
\* the bound of Spec: at most MaxNodes live element nodes after a call that adds n
Room(n) == run = "program" => Cardinality(alive \cap Elems) + n <= MaxNodes
\* the caller's rule: the iterator's node has not been deleted
Usable(x) == x.ptr # Dead /\ (x.ptr = Null \/ x.ptr \in alive)

Call(op, l, o, v, r) ==
    [op |-> op, l |-> l, o |-> o, v |-> v, status |-> r.status, ret |-> r.ret]

\* the lists that exist after the call op on l: a constructor adds l, the destructor
\* removes it
ConstructedAfter(op, l) ==
    IF op \in {"list", "list_copy"} THEN constructed \cup {l}
    ELSE IF op = "~list" THEN constructed \ {l}
    ELSE constructed

\* the state after a call with outcome r; nothing is recorded of a heap after
\* undefined behaviour
Commit(op, l, o, v, r) ==
    /\ last' = Call(op, l, o, v, r)
    /\ run' = run
    /\ srt' = srt
    /\ IF r.status = "undefined"
       THEN UNCHANGED <<next, prev, val, alive, sz, it, intact>>
       ELSE /\ intact' = Intact(r.h, ConstructedAfter(op, l))
            /\ next' = r.h.next
            /\ prev' = r.h.prev
            /\ val' = r.h.val
            /\ alive' = r.h.alive
            /\ sz' = r.h.sz
            /\ it' = r.h.it

\* it = <the iterator the call returned>, of class k
Store(k, r) ==
    IF r.status = "ok"
    THEN [r EXCEPT !.h.it = [kind |-> k, owner |-> r.ret.owner, ptr |-> r.ret.ptr]]
    ELSE r

Init ==
    /\ next = [n \in NodeIds |-> IF n = head(1) THEN head(1) ELSE Null]
    /\ prev = [n \in NodeIds |-> IF n = head(1) THEN head(1) ELSE Null]
    /\ val = [n \in NodeIds |-> 0]
    /\ alive = {head(1)}
    /\ sz = [l \in Lists |-> 0]
    /\ constructed = {1}
    /\ it = NoIter("iterator")
    /\ last = [op |-> "list", l |-> 1, o |-> Null, v |-> 0, status |-> "ok", ret |-> NoRet]
    /\ intact = TRUE
    /\ run = "program"
    /\ srt = Idle

DefaultConstruct(l) ==
    /\ Running /\ l \notin constructed
    /\ constructed' = constructed \cup {l}
    /\ Commit("list", l, Null, 0, list_default(Heap, l))

CopyConstruct(l, o) ==
    /\ Running /\ l \notin constructed /\ o \in constructed
    /\ Room(Len(Chain(Heap, o)))
    /\ constructed' = constructed \cup {l}
    /\ Commit("list_copy", l, o, 0, list_copy(Heap, l, o))

\* l.~list(): the end of the lifetime of list l
Destroy(l) ==
    /\ Running /\ l \in constructed
    /\ constructed' = constructed \ {l}
    /\ Commit("~list", l, Null, 0, list_destroy(Heap, l))

Assign(l, o) ==
    /\ Running /\ l \in constructed /\ o \in constructed
    /\ l = o \/ Room(Len(Chain(Heap, o)) - Len(Chain(Heap, l)))
    /\ UNCHANGED constructed
    /\ Commit("assign", l, o, 0, assign(Heap, l, o))

PushBack(l, v) ==
    /\ Running /\ l \in constructed
    /\ LET r == push_back(Heap, l, v)
       IN  (r.status # "ok" \/ Room(1)) /\ Commit("push_back", l, Null, v, r)
    /\ UNCHANGED constructed

PushFront(l, v) ==
    /\ Running /\ l \in constructed
    /\ LET r == push_front(Heap, l, v)
       IN  (r.status # "ok" \/ Room(1)) /\ Commit("push_front", l, Null, v, r)
    /\ UNCHANGED constructed

PopBack(l) ==
    /\ Running /\ l \in constructed
    /\ Commit("pop_back", l, Null, 0, pop_back(Heap, l))
    /\ UNCHANGED constructed

PopFront(l) ==
    /\ Running /\ l \in constructed
    /\ Commit("pop_front", l, Null, 0, pop_front(Heap, l))
    /\ UNCHANGED constructed

Front(l) ==
    /\ Running /\ l \in constructed
    /\ Commit("front", l, Null, 0, front(Heap, l))
    /\ UNCHANGED constructed

Back(l) ==
    /\ Running /\ l \in constructed
    /\ Commit("back", l, Null, 0, back(Heap, l))
    /\ UNCHANGED constructed

Clear(l) ==
    /\ Running /\ l \in constructed
    /\ Commit("clear", l, Null, 0, clear(Heap, l))
    /\ UNCHANGED constructed

\* l.insert(it, v), or it = l.insert(it, v) when keep
Insert(l, v, keep) ==
    /\ Running /\ l \in constructed /\ it.kind = "iterator" /\ Usable(it)
    /\ LET r == list_insert(Heap, l, it, v)
       IN  /\ r.status # "ok" \/ Room(1)
           /\ Commit("insert", l, Null, v, IF keep THEN Store("iterator", r) ELSE r)
    /\ UNCHANGED constructed

\* l.erase(it), or it = l.erase(it) when keep
Erase(l, keep) ==
    /\ Running /\ l \in constructed /\ it.kind = "iterator" /\ Usable(it)
    /\ LET r == list_erase(Heap, l, it)
       IN  Commit("erase", l, Null, 0, IF keep THEN Store("iterator", r) ELSE r)
    /\ UNCHANGED constructed

Sort(l) ==
    /\ Running /\ l \in constructed
    /\ Commit("sort", l, Null, 0, sort(Heap, l))
    /\ UNCHANGED constructed

Merge(l, o) ==
    /\ Running /\ l \in constructed /\ o \in constructed
    /\ Commit("merge", l, o, 0, merge(Heap, l, o))
    /\ UNCHANGED constructed

Reverse(l) ==
    /\ Running /\ l \in constructed
    /\ Commit("reverse", l, Null, 0, reverse(Heap, l))
    /\ UNCHANGED constructed

Unique(l) ==
    /\ Running /\ l \in constructed
    /\ Commit("unique", l, Null, 0, unique(Heap, l))
    /\ UNCHANGED constructed

\* it = l.begin()
Begin(l) ==
    /\ Running /\ l \in constructed
    /\ Commit("begin", l, Null, 0, Store("iterator", begin(Heap, l)))
    /\ UNCHANGED constructed

\* it = l.cbegin()
CBegin(l) ==
    /\ Running /\ l \in constructed
    /\ Commit("cbegin", l, Null, 0, Store("const_iterator", cbegin(Heap, l)))
    /\ UNCHANGED constructed

\* it = l.end()
End(l) ==
    /\ Running /\ l \in constructed
    /\ Commit("end", l, Null, 0, Store("iterator", end(Heap, l)))
    /\ UNCHANGED constructed

\* it = l.cend()
CEnd(l) ==
    /\ Running /\ l \in constructed
    /\ Commit("cend", l, Null, 0, Store("const_iterator", cend(Heap, l)))
    /\ UNCHANGED constructed

\* it = iterator() or const_iterator() when o is Null; it = iterator(&o, nullptr) or
\* const_iterator(&o, nullptr) otherwise
MakeNull(k, o) ==
    /\ Running /\ o \in constructed \cup {Null}
    /\ Commit(k, o, Null, 0, Ok([Heap EXCEPT !.it = [kind |-> k, owner |-> o, ptr |-> Null]], NoRet))
    /\ UNCHANGED constructed

\* it = const_iterator(it)
ConstFromIter ==
    /\ Running /\ it.kind = "iterator"
    /\ Commit("const_iterator(it)", it.owner, Null, 0, const_iterator_from(Heap))
    /\ UNCHANGED constructed

ItPostInc ==
    /\ Running /\ it.kind = "iterator" /\ Usable(it)
    /\ Commit("it++", it.owner, Null, 0, iterator_postinc(Heap))
    /\ UNCHANGED constructed

ItPreInc ==
    /\ Running /\ it.kind = "iterator" /\ Usable(it)
    /\ Commit("++it", it.owner, Null, 0, iterator_preinc(Heap))
    /\ UNCHANGED constructed

ItPostDec ==
    /\ Running /\ it.kind = "iterator" /\ Usable(it)
    /\ Commit("it--", it.owner, Null, 0, iterator_postdec(Heap))
    /\ UNCHANGED constructed

ItPreDec ==
    /\ Running /\ it.kind = "iterator" /\ Usable(it)
    /\ Commit("--it", it.owner, Null, 0, iterator_predec(Heap))
    /\ UNCHANGED constructed

ItDeref ==
    /\ Running /\ it.kind = "iterator" /\ Usable(it)
    /\ Commit("*it", it.owner, Null, 0, iterator_deref(Heap))
    /\ UNCHANGED constructed

ItArrow ==
    /\ Running /\ it.kind = "iterator" /\ Usable(it)
    /\ Commit("it->", it.owner, Null, 0, iterator_arrow(Heap))
    /\ UNCHANGED constructed

CItPostInc ==
    /\ Running /\ it.kind = "const_iterator" /\ Usable(it)
    /\ Commit("it++", it.owner, Null, 0, const_iterator_postinc(Heap))
    /\ UNCHANGED constructed

CItPreInc ==
    /\ Running /\ it.kind = "const_iterator" /\ Usable(it)
    /\ Commit("++it", it.owner, Null, 0, const_iterator_preinc(Heap))
    /\ UNCHANGED constructed

CItPostDec ==
    /\ Running /\ it.kind = "const_iterator" /\ Usable(it)
    /\ Commit("it--", it.owner, Null, 0, const_iterator_postdec(Heap))
    /\ UNCHANGED constructed

CItPreDec ==
    /\ Running /\ it.kind = "const_iterator" /\ Usable(it)
    /\ Commit("--it", it.owner, Null, 0, const_iterator_predec(Heap))
    /\ UNCHANGED constructed

CItDeref ==
    /\ Running /\ it.kind = "const_iterator" /\ Usable(it)
    /\ Commit("*it", it.owner, Null, 0, const_iterator_deref(Heap))
    /\ UNCHANGED constructed

CItArrow ==
    /\ Running /\ it.kind = "const_iterator" /\ Usable(it)
    /\ Commit("it->", it.owner, Null, 0, const_iterator_arrow(Heap))
    /\ UNCHANGED constructed

\* one call of the public interface
Next ==
    \/ \E l \in Lists : DefaultConstruct(l)
    \/ \E l, o \in Lists : CopyConstruct(l, o)
    \/ \E l \in Lists : Destroy(l)
    \/ \E l, o \in Lists : Assign(l, o)
    \/ \E l \in Lists, v \in Values : PushBack(l, v)
    \/ \E l \in Lists, v \in Values : PushFront(l, v)
    \/ \E l \in Lists : PopBack(l)
    \/ \E l \in Lists : PopFront(l)
    \/ \E l \in Lists : Front(l)
    \/ \E l \in Lists : Back(l)
    \/ \E l \in Lists : Clear(l)
    \/ \E l \in Lists, v \in Values, keep \in BOOLEAN : Insert(l, v, keep)
    \/ \E l \in Lists, keep \in BOOLEAN : Erase(l, keep)
    \/ \E l \in Lists : Sort(l)
    \/ \E l, o \in Lists : Merge(l, o)
    \/ \E l \in Lists : Reverse(l)
    \/ \E l \in Lists : Unique(l)
    \/ \E l \in Lists : Begin(l)
    \/ \E l \in Lists : CBegin(l)
    \/ \E l \in Lists : End(l)
    \/ \E l \in Lists : CEnd(l)
    \/ \E k \in Kinds, o \in Lists \cup {Null} : MakeNull(k, o)
    \/ ConstFromIter
    \/ ItPostInc \/ ItPreInc \/ ItPostDec \/ ItPreDec \/ ItDeref \/ ItArrow
    \/ CItPostInc \/ CItPreInc \/ CItPostDec \/ CItPreDec \/ CItDeref \/ CItArrow

\* Spec: the container from its construction on, with at most MaxNodes live element nodes
Spec == Init /\ [][Next]_vars

\* ================================================================ drawn inputs
\* all sequences over S of length n, and of length at most n
SeqsOfLen(S, n) == [1..n -> S]
SeqsUpTo(S, n) == UNION {SeqsOfLen(S, k) : k \in 0..n}

\* The heap in which the constructed lists cs hold the values v1 (list 1) and v2 (list 2)
\* in well-formed chains: list 1 in nodes 3.., list 2 in the nodes after them.
HeapOf(v1, v2, cs) ==
    LET ring(l) == IF l = 1 THEN <<head(1)>> \o [k \in 1..Len(v1) |-> 2 + k]
                   ELSE <<head(2)>> \o [k \in 1..Len(v2) |-> 2 + Len(v1) + k]
        on(l, n) == \E k \in 1..Len(ring(l)) : ring(l)[k] = n
        at(l, n) == CHOOSE k \in 1..Len(ring(l)) : ring(l)[k] = n
        owner(n) == IF \E l \in cs : on(l, n) THEN CHOOSE l \in cs : on(l, n) ELSE Null
        succ(l, n) == ring(l)[(at(l, n) % Len(ring(l))) + 1]
        pred(l, n) == ring(l)[((at(l, n) + Len(ring(l)) - 2) % Len(ring(l))) + 1]
    IN  [next  |-> [n \in NodeIds |-> IF owner(n) = Null THEN Null ELSE succ(owner(n), n)],
         prev  |-> [n \in NodeIds |-> IF owner(n) = Null THEN Null ELSE pred(owner(n), n)],
         val   |-> [n \in NodeIds |->
                       IF n \in 3..(2 + Len(v1)) /\ 1 \in cs THEN v1[n - 2]
                       ELSE IF n \in (3 + Len(v1))..(2 + Len(v1) + Len(v2)) /\ 2 \in cs
                            THEN v2[n - 2 - Len(v1)]
                       ELSE 0],
         alive |-> {n \in NodeIds : owner(n) # Null},
         sz    |-> [l \in Lists |-> IF l \in cs THEN Len(ring(l)) - 1 ELSE 0]]

\* the variables hold the heap g, iterator x and constructed lists cs, before any call
Given(g, x, cs) ==
    /\ next = g.next /\ prev = g.prev /\ val = g.val /\ alive = g.alive /\ sz = g.sz
    /\ constructed = cs
    /\ it = x
    /\ last = [op |-> "input", l |-> Null, o |-> Null, v |-> 0, status |-> "ok", ret |-> NoRet]
    /\ intact = TRUE
    /\ run = "single"
    /\ srt = Idle

\* SpecOps: one call of the public interface from every well-formed state of two lists
\* with at most MaxOpNodes elements, with the iterator variable anywhere a sequence of
\* calls can leave it: default-constructed, null, at an element or sentinel of its owner,
\* or (after merge moved its node) at a node of the other list.
InitOps ==
    \E cs \in {{1}, {1, 2}}, v1 \in SeqsUpTo(Values, MaxOpNodes),
       v2 \in SeqsUpTo(Values, MaxOpNodes), k \in Kinds :
        /\ Len(v1) + Len(v2) <= MaxOpNodes
        /\ 2 \in cs \/ v2 = <<>>
        /\ LET g == HeapOf(v1, v2, cs)
           IN  \E o \in cs \cup {Null}, p \in g.alive \cup {Null} :
                   /\ o = Null => p = Null
                   /\ Given(g, [kind |-> k, owner |-> o, ptr |-> p], cs)

SpecOps == InitOps /\ [][Next]_vars

\* SpecSort: sort() on every list of at most MaxSortLen elements with values 1..MaxAlgVal
AlgValues == 1..MaxAlgVal

InitSort ==
    \E v1 \in SeqsUpTo(AlgValues, MaxSortLen) :
        Given(HeapOf(v1, <<>>, {1, 2}), NoIter("iterator"), {1, 2})

NextSort == \E l \in Lists : Sort(l)

SpecSort == InitSort /\ [][NextSort]_vars

\* SpecMerge: merge() on every pair of lists with at most MaxMergeNodes elements together
InitMerge ==
    \E v1 \in SeqsUpTo(AlgValues, MaxMergeNodes), v2 \in SeqsUpTo(AlgValues, MaxMergeNodes) :
        /\ Len(v1) + Len(v2) <= MaxMergeNodes
        /\ Given(HeapOf(v1, v2, {1, 2}), NoIter("iterator"), {1, 2})

NextMerge == \E l, o \in Lists : Merge(l, o)

SpecMerge == InitMerge /\ [][NextMerge]_vars

\* SpecUnique: unique() on every list of at most MaxUniqueLen values
InitUnique ==
    \E v1 \in SeqsUpTo(AlgValues, MaxUniqueLen) :
        Given(HeapOf(v1, <<>>, {1, 2}), NoIter("iterator"), {1, 2})

NextUnique == \E l \in Lists : Unique(l)

SpecUnique == InitUnique /\ [][NextUnique]_vars

\* SpecFifo: one call of push, pop, front or back on every pair of lists with at most
\* MaxFifoStart elements
InitFifo ==
    \E v1 \in SeqsUpTo(Values, MaxFifoStart), v2 \in SeqsUpTo(Values, MaxFifoStart) :
        /\ Len(v1) + Len(v2) <= MaxFifoStart
        /\ Given(HeapOf(v1, v2, {1, 2}), NoIter("iterator"), {1, 2})

NextFifo ==
    \/ \E l \in Lists, v \in Values : PushBack(l, v)
    \/ \E l \in Lists, v \in Values : PushFront(l, v)
    \/ \E l \in Lists : PopBack(l)
    \/ \E l \in Lists : PopFront(l)
    \/ \E l \in Lists : Front(l)
    \/ \E l \in Lists : Back(l)

SpecFifo == InitFifo /\ [][NextFifo]_vars

\* SpecCopy: the program of Spec in which the second list is only ever made by the
\* copy constructor, so that it is a copy of the first list, taken at some moment
NextCopy ==
    \/ \E l, o \in Lists : CopyConstruct(l, o)
    \/ \E l \in Lists : Destroy(l)
    \/ \E l, o \in Lists : Assign(l, o)
    \/ \E l \in Lists, v \in Values : PushBack(l, v)
    \/ \E l \in Lists, v \in Values : PushFront(l, v)
    \/ \E l \in Lists : PopBack(l)
    \/ \E l \in Lists : PopFront(l)
    \/ \E l \in Lists : Front(l)
    \/ \E l \in Lists : Back(l)
    \/ \E l \in Lists : Clear(l)
    \/ \E l \in Lists, v \in Values, keep \in BOOLEAN : Insert(l, v, keep)
    \/ \E l \in Lists, keep \in BOOLEAN : Erase(l, keep)
    \/ \E l \in Lists : Sort(l)
    \/ \E l, o \in Lists : Merge(l, o)
    \/ \E l \in Lists : Reverse(l)
    \/ \E l \in Lists : Unique(l)
    \/ \E l \in Lists : Begin(l)
    \/ \E l \in Lists : CBegin(l)
    \/ \E l \in Lists : End(l)
    \/ \E l \in Lists : CEnd(l)
    \/ \E k \in Kinds, o \in Lists \cup {Null} : MakeNull(k, o)
    \/ ConstFromIter
    \/ ItPostInc \/ ItPreInc \/ ItPostDec \/ ItPreDec \/ ItDeref \/ ItArrow
    \/ CItPostInc \/ CItPreInc \/ CItPostDec \/ CItPreDec \/ CItDeref \/ CItArrow

SpecCopy == Init /\ [][NextCopy]_vars

\* ---------------------------------------------------------------- sort(), statement by statement
\* srt holds the locals of sort(): the list l, n = sz, the buffer a[0..n-1], the stack
\* (L[k], R[k] for k = 0..top, top = Len(stack) - 1), the range lo..hi popped last with
\* its pivot index p and pivot node, the scan indices i and j, and the number of swaps
\* made in the current partition.  pc is the statement to execute next; "undefined" is
\* reached by an access outside the buffer or the stack arrays.
SortUnchanged == UNCHANGED <<next, prev, val, alive, sz, constructed, it, intact, run>>

\* if (sz <= 1) return; otherwise collect the nodes and push (0, sz - 1)
SortEnter(l) ==
    /\ Running /\ srt.pc = "idle" /\ l \in constructed
    /\ IF sz[l] \in {0, 1}
       THEN /\ srt' = [pc |-> "done", l |-> l, n |-> sz[l]]
            /\ last' = Call("sort", l, Null, 0, Ok(Heap, NoRet))
       ELSE /\ srt' = [pc |-> "loop", l |-> l, n |-> sz[l],
                       a |-> [k \in 0..(sz[l] - 1) |-> Chain(Heap, l)[k + 1]],
                       stack |-> <<[l |-> 0, r |-> sz[l] - 1]>>,
                       lo |-> 0, hi |-> 0, p |-> 0, pivot |-> Null, i |-> 0, j |-> 0,
                       swaps |-> 0]
            /\ last' = [last EXCEPT !.op = "sorting", !.l = l]
    /\ SortUnchanged

\* while (top >= 0) { l = L[top]; r = R[top]; --top; i = l; j = r; pivot = a[(l + r) >> 1];
SortPop ==
    /\ srt.pc = "loop" /\ Len(srt.stack) > 0
    /\ LET top == srt.stack[Len(srt.stack)]
           p   == (top.l + top.r) \div 2
       IN  srt' = IF p \in DOMAIN srt.a
                  THEN [srt EXCEPT !.pc = "while", !.stack = SubSeq(@, 1, Len(@) - 1),
                                   !.lo = top.l, !.hi = top.r, !.i = top.l, !.j = top.r,
                                   !.p = p, !.pivot = srt.a[p], !.swaps = 0]
                  ELSE [srt EXCEPT !.pc = "undefined", !.p = p]
    /\ UNCHANGED last /\ SortUnchanged

\* while (i <= j)
SortWhile ==
    /\ srt.pc = "while"
    /\ srt' = [srt EXCEPT !.pc = IF srt.i <= srt.j THEN "scan_i" ELSE "push"]
    /\ UNCHANGED last /\ SortUnchanged

\* the scan going on over elements equal to the pivot
SortScanI_NotStrict ==
    /\ srt.pc = "scan_i"
    /\ srt' = IF srt.i \notin DOMAIN srt.a THEN [srt EXCEPT !.pc = "undefined"]
              ELSE IF ~(val[srt.pivot] < val[srt.a[srt.i]]) THEN [srt EXCEPT !.i = @ + 1]
              ELSE [srt EXCEPT !.pc = "scan_j"]
    /\ UNCHANGED last /\ SortUnchanged

\* while (*(a[i]->val) < *(pivot->val)) ++i;
SortScanI ==
    /\ srt.pc = "scan_i"
    /\ srt' = IF srt.i \notin DOMAIN srt.a THEN [srt EXCEPT !.pc = "undefined"]
              ELSE IF val[srt.a[srt.i]] < val[srt.pivot] THEN [srt EXCEPT !.i = @ + 1]
              ELSE [srt EXCEPT !.pc = "scan_j"]
    /\ UNCHANGED last /\ SortUnchanged

\* while (*(pivot->val) < *(a[j]->val)) --j;
SortScanJ ==
    /\ srt.pc = "scan_j"
    /\ srt' = IF srt.j \notin DOMAIN srt.a THEN [srt EXCEPT !.pc = "undefined"]
              ELSE IF val[srt.pivot] < val[srt.a[srt.j]] THEN [srt EXCEPT !.j = @ - 1]
              ELSE [srt EXCEPT !.pc = "swap"]
    /\ UNCHANGED last /\ SortUnchanged

\* if (i <= j) { node *t = a[i]; a[i] = a[j]; a[j] = t; ++i; --j; }
SortSwap ==
    /\ srt.pc = "swap"
    /\ srt' = IF srt.i <= srt.j
              THEN [srt EXCEPT !.pc = "while", !.a = Swap(@, srt.i, srt.j),
                               !.i = @ + 1, !.j = @ - 1, !.swaps = @ + 1]
              ELSE [srt EXCEPT !.pc = "while"]
    /\ UNCHANGED last /\ SortUnchanged

\* the left push with R[top] = r instead of R[top] = j
SortPush_WholeRange ==
    /\ srt.pc = "push"
    /\ LET s1 == IF srt.lo < srt.j THEN Append(srt.stack, [l |-> srt.lo, r |-> srt.hi])
                 ELSE srt.stack
           s2 == IF srt.i < srt.hi THEN Append(s1, [l |-> srt.i, r |-> srt.hi]) ELSE s1
       IN  srt' = [srt EXCEPT !.pc = IF Len(s2) <= srt.n THEN "loop" ELSE "undefined",
                              !.stack = s2]
    /\ UNCHANGED last /\ SortUnchanged

\* if (l < j) { ++top; L[top] = l; R[top] = j; } if (i < r) { ++top; L[top] = i; R[top] = r; }
SortPush ==
    /\ srt.pc = "push"
    /\ LET s1 == IF srt.lo < srt.j THEN Append(srt.stack, [l |-> srt.lo, r |-> srt.j])
                 ELSE srt.stack
           s2 == IF srt.i < srt.hi THEN Append(s1, [l |-> srt.i, r |-> srt.hi]) ELSE s1
       IN  srt' = [srt EXCEPT !.pc = IF Len(s2) <= srt.n THEN "loop" ELSE "undefined",
                              !.stack = s2]
    /\ UNCHANGED last /\ SortUnchanged

\* after the loop: relink the chain in buffer order, free the arrays, return
SortRelink ==
    /\ srt.pc = "loop" /\ Len(srt.stack) = 0
    /\ srt' = [srt EXCEPT !.pc = "done"]
    /\ LET h == Relink(Heap, srt.l, srt.a, srt.n)
       IN  /\ last' = Call("sort", srt.l, Null, 0, Ok(h, NoRet))
           /\ next' = h.next /\ prev' = h.prev
           /\ intact' = Intact(h, constructed)
    /\ UNCHANGED <<val, alive, sz, constructed, it, run>>

InitSortSteps == InitSort

NextSortSteps ==
    \/ \E l \in Lists : SortEnter(l)
    \/ SortPop \/ SortWhile \/ SortScanI \/ SortScanJ \/ SortSwap \/ SortPush
    \/ SortRelink

\* a sort() call that has started keeps executing
SpecSortSteps == InitSortSteps /\ [][NextSortSteps]_vars /\ WF_vars(NextSortSteps)

\* ================================================================ claims
ChainNow(l) == Chain(Heap, l)
\* the chain of list l after the step
ChainAfter(l) == Chain([next |-> next'], l)
Errors == {"InvalidIterator", "ContainerIsEmpty"}
\* the subsequence of s of the elements in S
RECURSIVE Restrict(_, _)
Restrict(s, S) ==
    IF s = <<>> THEN <<>>
    ELSE (IF Head(s) \in S THEN <<Head(s)>> ELSE <<>>) \o Restrict(Tail(s), S)
\* no adjacent pair of the chain c with a[i+1] < a[i], values read from vl
Ascending(c, vl) == \A k \in 1..(Len(c) - 1) : ~(vl[c[k + 1]] < vl[c[k]])
NoRepeat(c) == Cardinality(Range(c)) = Len(c)

\* C1: in every reachable state every constructed list is well formed: its chain is
\* a circle through its own sentinel with mirrored prev links, and its size counter is
\* the number of elements on the chain.
C1_WellFormedAlways == \A l \in constructed : WellFormed(Heap, l)

\* C2: merge of two distinct lists that are each sorted ascending leaves the receiver
\* ascending, keeps the relative order of the receiver's nodes and of the argument's
\* nodes, and never places a node of the argument before an equal node of the receiver.
C2_MergeStable ==
    [][(/\ last'.op = "merge" /\ last'.l # last'.o
        /\ Ascending(ChainNow(last'.l), val) /\ Ascending(ChainNow(last'.o), val))
       => LET a == ChainNow(last'.l)
              b == ChainNow(last'.o)
              c == ChainAfter(last'.l)
          IN  /\ last'.status = "ok"
              /\ Ascending(c, val')
              /\ Restrict(c, Range(a)) = a
              /\ Restrict(c, Range(b)) = b
              /\ \A i, j \in 1..Len(c) :
                    (i < j /\ c[i] \in Range(b) /\ c[j] \in Range(a))
                        => val'[c[i]] # val'[c[j]]]_vars

\* C2 witness: list 2 was merged into list 1, a node of list 2 stands directly before
\* a node of list 1, and the first node of list 1 and the last node of list 2 are equal
C2_Witness ==
    /\ last.op = "merge" /\ last.l = 1 /\ last.o = 2 /\ last.status = "ok"
    /\ LET c == ChainNow(1)
       IN  /\ Len(c) >= 3
           /\ \E k \in 1..(Len(c) - 1) : c[k] > c[k + 1]
           /\ val[3] = val[2 + Len(c)]

\* C3: after merge with a different list of size > 0 the argument's sentinel links to
\* itself and its size is 0, the receiver's size is the sum of the two sizes, and the
\* receiver's chain holds exactly the nodes of the two chains, each once; no node is
\* created or destroyed.
C3_MergeMovesAll ==
    [][(last'.op = "merge" /\ last'.l # last'.o /\ sz[last'.o] # 0)
       => LET l == last'.l
              o == last'.o
          IN  /\ last'.status = "ok"
              /\ next'[head(o)] = head(o) /\ prev'[head(o)] = head(o) /\ sz'[o] = 0
              /\ sz'[l] = sz[l] + sz[o]
              /\ Range(ChainAfter(l)) = Range(ChainNow(l)) \cup Range(ChainNow(o))
              /\ NoRepeat(ChainAfter(l))
              /\ Len(ChainAfter(l)) = sz'[l]
              /\ alive' = alive]_vars

\* C3 witness: list 2, not empty, was merged into a list 1 that was not empty
C3_Witness ==
    /\ last.op = "merge" /\ last.l = 1 /\ last.o = 2 /\ last.status = "ok"
    /\ sz[2] = 0 /\ sz[1] >= 3
    /\ \E k \in 1..(Len(ChainNow(1)) - 1) : ChainNow(1)[k] > ChainNow(1)[k + 1]

\* C4: after sort() no adjacent pair of the chain has a[i+1] < a[i], the size is the
\* same, and the chain holds exactly the nodes it held before, each once, with their
\* values.
C4_SortSorts ==
    [][last'.op = "sort"
       => LET l == last'.l
          IN  /\ last'.status = "ok"
              /\ Ascending(ChainAfter(l), val')
              /\ sz'[l] = sz[l]
              /\ Len(ChainAfter(l)) = Len(ChainNow(l))
              /\ Range(ChainAfter(l)) = Range(ChainNow(l))
              /\ NoRepeat(ChainAfter(l))
              /\ val' = val /\ alive' = alive]_vars

\* C4 witness: a list of at least three elements was sorted and its nodes are no longer
\* in the order they were given in
C4_Witness ==
    /\ last.op = "sort" /\ last.l = 1 /\ last.status = "ok" /\ sz[1] >= 3
    /\ \E k \in 1..(Len(ChainNow(1)) - 1) : ChainNow(1)[k] > ChainNow(1)[k + 1]
    /\ \E k \in 1..(Len(ChainNow(1)) - 1) : val[ChainNow(1)[k]] = val[ChainNow(1)[k + 1]]

\* C5: a call that fails with InvalidIterator or ContainerIsEmpty leaves every link,
\* size counter, value and node, and the iterator, as they were.
C5_FailureChangesNothing ==
    [][last'.status \in Errors => UNCHANGED <<next, prev, val, alive, sz, it, constructed>>]_vars

\* C5 witness: a backward step failed at the first element of a list of two or more
C5_Witness ==
    /\ last.op \in {"it--", "--it"} /\ last.status = "InvalidIterator"
    /\ it.owner # Null /\ it.ptr \in Elems /\ sz[it.owner] >= 2
    /\ prev[it.ptr] = head(it.owner)

\* C6: insert, erase, push, pop, clear, sort, reverse and unique on a list leave the
\* chain and the size counter of every other list unchanged, whether they fail or not.
C6_OtherListsUntouched ==
    [][last'.op \in {"insert", "erase", "push_back", "push_front", "pop_back",
                     "pop_front", "clear", "sort", "reverse", "unique"}
       => \A y \in constructed \ {last'.l} :
             ChainAfter(y) = ChainNow(y) /\ sz'[y] = sz[y]]_vars

\* C7: insert fails with InvalidIterator when pos is bound to another list or its node
\* reference is null; erase on a list of size > 0 fails with InvalidIterator when pos is
\* bound to another list, null, or at the list's sentinel; insert at end() succeeds.
C7_InvalidIterator ==
    [][LET l == last'.l IN
       /\ (last'.op = "insert" /\ (it.owner # l \/ it.ptr = Null))
             => last'.status = "InvalidIterator"
       /\ (last'.op = "erase" /\ sz[l] # 0
             /\ (it.owner # l \/ it.ptr = Null \/ it.ptr = head(l)))
             => last'.status = "InvalidIterator"
       /\ (last'.op = "insert" /\ it.owner = l /\ it.ptr = head(l))
             => last'.status = "ok"]_vars

\* C7 witness: insert was refused for an iterator at an element of the other list
C7_Witness ==
    /\ last.op = "insert" /\ last.status = "InvalidIterator"
    /\ it.owner \in Lists \ {last.l} /\ it.ptr \in Elems
    /\ it.ptr \in Range(ChainNow(it.owner))

\* C8: on a list of size 0, front, back, pop_front, pop_back and erase fail with
\* ContainerIsEmpty, erase for every iterator argument.
C8_ContainerIsEmpty ==
    [][(last'.op \in {"front", "back", "pop_front", "pop_back", "erase"}
        /\ sz[last'.l] = 0)
       => last'.status = "ContainerIsEmpty"]_vars

\* C8 witness: erase on an empty list was given an iterator at an element of the other
\* list and failed with ContainerIsEmpty
C8_Witness ==
    /\ last.op = "erase" /\ last.status = "ContainerIsEmpty"
    /\ it.owner \in Lists \ {last.l} /\ it.ptr \in Elems

\* C9: for iterator and const_iterator, a forward step or a dereference at the owner's
\* sentinel fails with InvalidIterator; a backward step fails with InvalidIterator when
\* the owner's size is 0 or the node's predecessor is the owner's sentinel; in every
\* other case, at a node, the step succeeds and moves to the next, respectively
\* previous, node.
C9_IteratorSteps ==
    [][LET fwd == last'.op \in {"it++", "++it"}
           bwd == last'.op \in {"it--", "--it"}
           drf == last'.op \in {"*it", "it->"}
           bound == it.owner # Null /\ it.ptr # Null
           moved(p) == /\ last'.status = "ok"
                       /\ it' = [it EXCEPT !.ptr = p]
       IN
       /\ ((fwd \/ drf) /\ bound /\ it.ptr = head(it.owner))
             => last'.status = "InvalidIterator"
       /\ (bwd /\ bound /\ (sz[it.owner] = 0 \/ prev[it.ptr] = head(it.owner)))
             => last'.status = "InvalidIterator"
       /\ (fwd /\ bound /\ it.ptr # head(it.owner)) => moved(next[it.ptr])
       /\ (bwd /\ bound /\ sz[it.owner] # 0 /\ prev[it.ptr] # head(it.owner))
             => moved(prev[it.ptr])]_vars

\* C9 witness: a const_iterator stepped back from end() onto the last of two elements
C9_Witness ==
    /\ last.op = "--it" /\ last.status = "ok" /\ it.kind = "const_iterator"
    /\ it.owner # Null /\ it.ptr \in Elems /\ next[it.ptr] = head(it.owner)
    /\ last.ret = RetCIter(it.owner, it.ptr)
    /\ sz[it.owner] >= 2 /\ WellFormed(Heap, it.owner)

\* C10: insert(pos, v) with pos bound to the list and not null succeeds; the iterator
\* it returns is bound to the list and is at a new node holding v, which is the
\* immediate predecessor of pos's node; the size grows by exactly 1; the nodes present
\* before keep their order.
C10_Insert ==
    [][last'.op = "insert"
       => LET l == last'.l
              n == last'.ret.ptr
          IN  /\ (it.owner = l /\ it.ptr # Null) => last'.status = "ok"
              /\ last'.status = "ok" =>
                    /\ last'.ret.kind = "iter" /\ last'.ret.owner = l
                    /\ n \in alive' \ alive /\ alive' = alive \cup {n}
                    /\ n # head(l) /\ val'[n] = last'.v
                    /\ next'[n] = it.ptr /\ prev'[it.ptr] = n
                    /\ next'[prev[it.ptr]] = n /\ prev'[n] = prev[it.ptr]
                    /\ sz'[l] = sz[l] + 1
                    /\ \A y \in constructed :
                          Restrict(ChainAfter(y), Range(ChainNow(y))) = ChainNow(y)
                    /\ \A m \in alive : val'[m] = val[m]]_vars

\* C10 witness: a value was inserted between two elements of a list
C10_Witness ==
    /\ last.op = "insert" /\ last.status = "ok" /\ last.ret.kind = "iter"
    /\ sz[last.l] = 3
    /\ prev[last.ret.ptr] \in Elems /\ next[last.ret.ptr] \in Elems
    /\ val[last.ret.ptr] # val[next[last.ret.ptr]]

\* C11: erase(pos) with pos at an element of the list succeeds, removes and destroys
\* exactly that node (the size decreases by 1, the other nodes keep their order and
\* are linked to each other in both directions) and returns an iterator, bound to the
\* list, at the node that followed pos, which is end() when pos was at the last element.
C11_Erase ==
    [][(last'.op = "erase" /\ it.owner = last'.l /\ it.ptr \in Range(ChainNow(last'.l)))
       => LET l == last'.l
              rm == it.ptr
          IN  /\ last'.status = "ok"
              /\ last'.ret = RetIter(l, next[rm])
              /\ (next[rm] = head(l)) <=> (rm = ChainNow(l)[Len(ChainNow(l))])
              /\ ChainAfter(l) = Restrict(ChainNow(l), Range(ChainNow(l)) \ {rm})
              /\ next'[prev[rm]] = next[rm] /\ prev'[next[rm]] = prev[rm]
              /\ sz'[l] = sz[l] - 1
              /\ alive' = alive \ {rm}
              /\ \A m \in alive' : val'[m] = val[m]]_vars

\* C11 witness: the middle one of three elements was erased and the iterator returned
\* is at the element that followed it
C11_Witness ==
    /\ last.op = "erase" /\ last.status = "ok" /\ last.ret.kind = "iter"
    /\ sz[last.l] = 2 /\ Len(ChainNow(last.l)) = 2
    /\ last.ret.ptr = ChainNow(last.l)[2]
    /\ Cardinality(alive \cap Elems) = 2

\* the heap and iterator after the step, as a value the operations map
HeapAfter == [next |-> next', prev |-> prev', val |-> val', alive |-> alive',
              sz |-> sz', it |-> it', ub |-> FALSE]
\* the sequence s backwards
Rev(s) == [k \in 1..Len(s) |-> s[Len(s) + 1 - k]]
\* the nodes met following prev from the sentinel's prev back to the sentinel
RECURSIVE WalkBack(_, _, _, _)
WalkBack(h, n, stop, fuel) ==
    IF n = stop \/ n = Null \/ fuel = 0 THEN <<>>
    ELSE <<n>> \o WalkBack(h, h.prev[n], stop, fuel - 1)
ChainBack(h, l) == WalkBack(h, h.prev[head(l)], head(l), Cardinality(NodeIds))

\* C12: reverse() turns the traversal n1..nk into nk..n1, forward and backward, over
\* the same sentinel, nodes, values and size, for every size from 0 up; a second
\* reverse() on the result gives back every link of the state before the first.
C12_ReverseInvolution ==
    [][last'.op = "reverse"
       => LET l == last'.l
              again == reverse(HeapAfter, l)
          IN  /\ last'.status = "ok"
              /\ ChainAfter(l) = Rev(ChainNow(l))
              /\ ChainBack(HeapAfter, l) = Rev(ChainAfter(l))
              /\ sz'[l] = sz[l] /\ alive' = alive /\ val' = val
              /\ again.status = "ok"
              /\ again.h.next = next /\ again.h.prev = prev
              /\ again.h.sz = sz /\ again.h.alive = alive]_vars

\* C12 witness: a list of three elements was reversed
C12_Witness ==
    /\ last.op = "reverse" /\ last.status = "ok"
    /\ Len(ChainNow(last.l)) = 3 /\ sz[last.l] = 3
    /\ ChainNow(last.l)[1] > ChainNow(last.l)[2]
    /\ ChainNow(last.l)[2] > ChainNow(last.l)[3]

\* the nodes of the chain c that start a maximal run of equal values
RunHeads(c, vl) == {c[k] : k \in {j \in 1..Len(c) : j = 1 \/ vl[c[j]] # vl[c[j - 1]]}}

\* C13: unique() leaves exactly the first node of every maximal run of consecutive
\* equal elements, in the original order: no two neighbours are equal afterwards,
\* equal elements of different runs all stay, the size is the number of runs, the
\* other nodes are destroyed and no value changes.
C13_Unique ==
    [][last'.op = "unique"
       => LET l == last'.l
              c == ChainNow(l)
              d == ChainAfter(l)
          IN  /\ last'.status = "ok"
              /\ d = Restrict(c, RunHeads(c, val))
              /\ \A k \in 1..(Len(d) - 1) : val'[d[k]] # val'[d[k + 1]]
              /\ sz'[l] = Cardinality(RunHeads(c, val)) /\ sz'[l] = Len(d)
              /\ ChainBack(HeapAfter, l) = Rev(d)
              /\ alive' = alive \ (Range(c) \ RunHeads(c, val))
              /\ \A m \in alive' : val'[m] = val[m]]_vars

\* C13 witness: unique() turned [1,1,2,2,3,1] into [1,2,3,1]
C13_Witness ==
    /\ last.op = "unique" /\ last.l = 1 /\ last.status = "ok"
    /\ ChainNow(1) = <<3, 5, 7, 8>>
    /\ ValuesOf(Heap, ChainNow(1)) = <<1, 2, 3, 1>>
    /\ sz[1] = 4

\* push_back(vs[1]); ...; push_back(vs[n]) on list l
RECURSIVE PushAll(_, _, _)
PushAll(h, l, vs) ==
    IF vs = <<>> THEN h ELSE PushAll(push_back(h, l, Head(vs)).h, l, Tail(vs))
\* k times { front(); pop_front(); } on list l: the values seen (0 for a call that
\* failed) and the heap left
RECURSIVE Drain(_, _, _)
Drain(h, l, k) ==
    IF k = 0 THEN [h |-> h, seen |-> <<>>]
    ELSE LET f == front(h, l)
             p == pop_front(h, l)
             rest == Drain(p.h, l, k - 1)
             v == IF f.status = "ok" /\ p.status = "ok" THEN f.ret.v ELSE 0
         IN  [h |-> rest.h, seen |-> <<v>> \o rest.seen]
\* s without its last element
ButLast(s) == SubSeq(s, 1, Len(s) - 1)

\* C14: push_back appends: from any state, after push_back(v1), ..., push_back(vk) the
\* chain is the old chain followed by k new nodes holding v1..vk; if the list was empty,
\* k times front() then pop_front() see v1..vk in that order and leave the list empty.
\* push_front puts the new value at begin(); pop_front destroys the first element and
\* pop_back the one before end(); front() and back() return the first and last value.
C14_Fifo ==
    [][LET l == last'.l
           c == ChainNow(l)
           d == ChainAfter(l)
           ok == last'.status = "ok"
       IN
       /\ last'.op = "push_back"
             => /\ ok /\ Len(d) = Len(c) + 1 /\ ButLast(d) = c
                /\ d[Len(d)] \notin alive /\ val'[d[Len(d)]] = last'.v
                /\ \A ws \in SeqsUpTo(Values, MaxFifoLen - 1) :
                      LET h2 == PushAll(HeapAfter, l, ws)
                          e  == Chain(h2, l)
                          k  == 1 + Len(ws)
                          dr == Drain(h2, l, k)
                      IN  /\ Len(e) = Len(c) + k /\ h2.sz[l] = sz[l] + k
                          /\ SubSeq(e, 1, Len(c)) = c
                          /\ ValuesOf(h2, SubSeq(e, Len(c) + 1, Len(e))) = <<last'.v>> \o ws
                          /\ sz[l] = 0 => /\ dr.seen = <<last'.v>> \o ws
                                          /\ dr.h.sz[l] = 0
                                          /\ Chain(dr.h, l) = <<>>
                                          /\ dr.h.alive = alive
       /\ last'.op = "push_front"
             => /\ ok /\ Len(d) = Len(c) + 1 /\ Tail(d) = c
                /\ d[1] \notin alive /\ val'[d[1]] = last'.v
       /\ (last'.op = "pop_front" /\ sz[l] # 0)
             => ok /\ d = Tail(c) /\ alive' = alive \ {c[1]} /\ sz'[l] = sz[l] - 1
       /\ (last'.op = "pop_back" /\ sz[l] # 0)
             => ok /\ d = ButLast(c) /\ alive' = alive \ {c[Len(c)]} /\ sz'[l] = sz[l] - 1
       /\ (last'.op = "front" /\ sz[l] # 0) => ok /\ last'.ret = RetVal(val[c[1]])
       /\ (last'.op = "back" /\ sz[l] # 0) => ok /\ last'.ret = RetVal(val[c[Len(c)]])]_vars

\* C14 witness: a value was pushed at the back of an empty list while the other list
\* holds elements
C14_Witness ==
    /\ last.op = "push_back" /\ last.status = "ok"
    /\ sz[last.l] = 1 /\ Len(ChainNow(last.l)) = 1
    /\ val[ChainNow(last.l)[1]] = last.v
    /\ \E o \in constructed \ {last.l} : sz[o] >= 1

\* the element values of list l in traversal order, before and after the step
ValuesNow(l) == ValuesOf(Heap, ChainNow(l))
ValuesAfter(l) == ValuesOf(HeapAfter, ChainAfter(l))

\* what copy construction and copy assignment of l from o (l # o) do: l holds the
\* values of o in the same order and number, in nodes allocated by the call (the
\* nodes l held before are destroyed), none of them on the chain of o, and o is as it was
C15_DeepCopy(l, o) ==
    /\ last'.status = "ok"
    /\ ValuesAfter(l) = ValuesNow(o) /\ sz'[l] = sz[o]
    /\ Range(ChainAfter(l)) \cap (alive \ Range(ChainNow(l))) = {}
    /\ Range(ChainAfter(l)) \cap Range(ChainAfter(o)) = {}
    /\ NoRepeat(ChainAfter(l))
    /\ ChainAfter(o) = ChainNow(o) /\ ValuesAfter(o) = ValuesNow(o) /\ sz'[o] = sz[o]

\* C15: copy construction and copy assignment make a deep copy; assignment of a list
\* to itself changes nothing; and every later call on the copy or on the source, merge
\* with the other list as its argument excepted, leaves the other list's sequence of
\* values and its size as they were.
C15_CopyIndependent ==
    [][LET l == last'.l
           o == last'.o
       IN
       /\ last'.op = "list_copy" => C15_DeepCopy(l, o)
       /\ (last'.op = "assign" /\ l # o) => C15_DeepCopy(l, o)
       /\ (last'.op = "assign" /\ l = o)
             => /\ last'.status = "ok"
                /\ UNCHANGED <<next, prev, val, alive, sz, it>>
       /\ \A y \in constructed \ {l} :
             (last'.op = "merge" /\ o = y)
                \/ (ValuesAfter(y) = ValuesNow(y) /\ sz'[y] = sz[y])]_vars

\* C16: merge with the receiver itself as argument, or with an empty argument, changes
\* nothing: every link, size counter, value and node, and the iterator, are as before,
\* whatever the receiver holds.
C16_MergeNoOp ==
    [][(last'.op = "merge" /\ (last'.l = last'.o \/ sz[last'.o] = 0))
       => /\ last'.status = "ok"
          /\ UNCHANGED <<next, prev, val, alive, sz, it, constructed>>]_vars

\* C16 witness: a list of two or more elements was merged into itself
C16_Witness ==
    /\ last.op = "merge" /\ last.l = last.o /\ last.status = "ok"
    /\ sz[last.l] >= 2 /\ Len(ChainNow(last.l)) = sz[last.l]

\* operator* of the caller's iterator, of whichever class it is, on the heap h
Deref(h) == IF h.it.kind = "iterator" THEN iterator_deref(h) ELSE const_iterator_deref(h)

\* C17: sort, merge and reverse leave every node's value, the set of nodes and the
\* iterator as they were, only prev and next links differ; an iterator at an element
\* of its list before the call dereferences to the same value after it, also when it
\* was obtained from the list that merge took as its argument.
C17_ValuesStay ==
    [][last'.op \in {"sort", "merge", "reverse"}
       => /\ last'.status = "ok"
          /\ val' = val /\ alive' = alive /\ it' = it
          /\ (it.owner # Null /\ it.ptr \in Range(ChainNow(it.owner)))
                => /\ Deref(Heap).status = "ok"
                   /\ Deref(HeapAfter).status = "ok"
                   /\ Deref(HeapAfter).ret = Deref(Heap).ret
                   /\ Deref(HeapAfter).ret = RetVal(val[it.ptr])]_vars

\* C17 witness: an iterator obtained from the argument of merge is at an element that
\* merge moved to the receiver, which held elements of its own
C17_Witness ==
    /\ last.op = "merge" /\ last.status = "ok" /\ last.l # last.o
    /\ it.owner = last.o /\ it.ptr \in Range(ChainNow(last.l))
    /\ sz[last.l] >= 2 /\ sz[last.o] = 0
    /\ \E m \in Range(ChainNow(last.l)) : m < it.ptr /\ val[m] # val[it.ptr]

\* sort() is being followed on a list of two or more elements
Sorting == srt.pc # "idle" /\ srt.n >= 2
InBuffer(k) == k \in 0..(srt.n - 1)

\* C18: during sort() on a list of n >= 2 elements no access leaves the buffer or the
\* stack arrays: the pivot index and the scan indices i and j are in 0..n-1 whenever
\* they index the buffer, top stays below n, and every range on the stack has
\* 0 <= l < r <= n-1.
C18_SortIndicesInRange ==
    Sorting =>
        /\ srt.pc # "undefined"
        /\ srt.pc \in {"while", "scan_i", "scan_j", "swap", "push"}
              => InBuffer(srt.p) /\ InBuffer(srt.lo) /\ InBuffer(srt.hi)
        /\ srt.pc = "scan_i" => InBuffer(srt.i)
        /\ srt.pc = "scan_j" => InBuffer(srt.j)
        /\ (srt.pc = "swap" /\ srt.i <= srt.j) => InBuffer(srt.i) /\ InBuffer(srt.j)
        /\ Len(srt.stack) - 1 < srt.n
        /\ \A k \in 1..Len(srt.stack) :
              0 <= srt.stack[k].l /\ srt.stack[k].l < srt.stack[k].r
                                 /\ srt.stack[k].r <= srt.n - 1

\* C18 witness: after a swap the upward scan reads the last slot of a buffer of four
C18_Witness ==
    /\ Sorting /\ srt.pc = "scan_i" /\ srt.n = 4 /\ srt.i = 3
    /\ srt.swaps >= 1

\* C19: sort() returns for every list: every partition makes at least one swap and
\* pushes only ranges strictly shorter than the range it popped, and the call
\* eventually reaches its end with the stack empty.
C19_SortTerminates ==
    /\ [][(srt.pc = "push" /\ srt'.pc # "push")
            => /\ srt.swaps >= 1
               /\ srt'.pc = "loop"
               /\ \A k \in (Len(srt.stack) + 1)..Len(srt'.stack) :
                     srt'.stack[k].r - srt'.stack[k].l < srt.hi - srt.lo]_vars
    /\ <>(srt.pc = "done" /\ last.op = "sort" /\ last.status = "ok")

\* C19 witness: sort() returned on a list of four elements, all equal, whose nodes it
\* reordered
C19_Witness ==
    /\ srt.pc = "done" /\ srt.n = 4 /\ last.op = "sort" /\ last.status = "ok"
    /\ \A m \in Range(ChainNow(srt.l)) : val[m] = val[ChainNow(srt.l)[1]]
    /\ \E k \in 1..3 : ChainNow(srt.l)[k] > ChainNow(srt.l)[k + 1]

\* C20: operator* and operator-> of an iterator whose node has not been destroyed either
\* fail with InvalidIterator or return the value of an element, never the absent value
\* of a sentinel, and a forward step from a sentinel always fails: no iterator moves
\* past a sentinel.  This covers iterators obtained from a list that was afterwards the
\* argument of merge; the iterator's list has not been destroyed either.
C20_NoSentinelAccess ==
    [][it.owner \in constructed \cup {Null} =>
       /\ last'.op \in {"*it", "it->"}
            => \/ last'.status = "InvalidIterator"
               \/ /\ last'.status = "ok"
                  /\ it.ptr \in alive \cap Elems
                  /\ last'.ret.v = val[it.ptr] /\ last'.ret.v # 0
       /\ (last'.op \in {"it++", "++it"} /\ it.ptr \in Lists)
            => last'.status = "InvalidIterator"]_vars

====
